---- MODULE Spec2Model ----
(***************************************************************************)
(* Model of pymanopt/manifolds/stiefel.py: the Stiefel manifold St(n, p)   *)
(* and its k-fold product.                                                 *)
(*                                                                         *)
(* Numbers are exact rationals.  A scalar is [num, den] in lowest terms    *)
(* with den > 0.  An ndarray is [nd, d, m]: nd its number of axes (2 for   *)
(* an n x p matrix, 3 for a k x n x p stack), m the nested sequence of     *)
(* integer numerators and d > 0 their common denominator, in lowest terms, *)
(* so that two arrays hold the same values iff they are equal.             *)
(*                                                                         *)
(* The file is Python 2: xrange is the builtin, and the arrays are arrays  *)
(* of floats, so that / is the true division.  numpy, scipy and            *)
(* pymanopt.tools.multi are outside the file: np.linalg.qr is modelled by  *)
(* its contract, scipy.linalg.expm by its Taylor polynomial, the others by *)
(* what they compute.                                                      *)
(***************************************************************************)
EXTENDS Integers, Sequences, FiniteSets, TLC

\* ------------------------------------------------------------------ bounds
MaxN == 2
MaxDim == 5
MaxK == 2
MaxCells == 4
MaxEntry == 1
ExpmOrder == 2

\* --------------------------------------------------------- exact arithmetic
Abs(x) == IF x < 0 THEN -x ELSE x

RECURSIVE GCD(_, _)
GCD(a, b) == IF b = 0 THEN Abs(a) ELSE GCD(b, a % Abs(b))

RECURSIVE GCDSet(_)
GCDSet(S) ==
    IF S = {} THEN 0
    ELSE LET x == CHOOSE y \in S : TRUE IN GCD(x, GCDSet(S \ {x}))

RECURSIVE Factorial(_)
Factorial(j) == IF j = 0 THEN 1 ELSE j * Factorial(j - 1)

Rat(a, b) ==
    LET s == IF b < 0 THEN -1 ELSE 1
        g == GCD(a, b)
    IN  [num |-> (s * a) \div g, den |-> (s * b) \div g]

RInt(a) == [num |-> a, den |-> 1]
RAdd(x, y) == Rat(x.num * y.den + y.num * x.den, x.den * y.den)
RSub(x, y) == Rat(x.num * y.den - y.num * x.den, x.den * y.den)
RMul(x, y) == Rat(x.num * y.num, x.den * y.den)

\* RSum(f, n) = f[1] + ... + f[n] over integers
RECURSIVE ISum(_, _)
ISum(f, n) == IF n = 0 THEN 0 ELSE f[n] + ISum(f, n - 1)

\* ----------------------------------------------- integer (numerator) matrices
Rows(M) == Len(M)
Cols(M) == Len(M[1])
MT(M) == [j \in 1..Cols(M) |-> [i \in 1..Rows(M) |-> M[i][j]]]
MMul(A, B) ==
    [i \in 1..Rows(A) |-> [j \in 1..Cols(B) |->
        ISum([l \in 1..Cols(A) |-> A[i][l] * B[l][j]], Cols(A))]]
MAdd(A, B) == [i \in 1..Rows(A) |-> [j \in 1..Cols(A) |-> A[i][j] + B[i][j]]]
MScale(c, A) == [i \in 1..Rows(A) |-> [j \in 1..Cols(A) |-> c * A[i][j]]]
MEntries(M) == {M[i][j] : i \in 1..Rows(M), j \in 1..Cols(M)}

\* ------------------------------------------------------------------ ndarrays
Entries(A) ==
    IF A.nd = 2 THEN MEntries(A.m)
    ELSE UNION {MEntries(A.m[s]) : s \in 1..Len(A.m)}

ScaleAll(c, A) ==
    IF A.nd = 2 THEN MScale(c, A.m)
    ELSE [s \in 1..Len(A.m) |-> MScale(c, A.m[s])]

DivAll(g, A) ==
    IF A.nd = 2
    THEN [i \in 1..Rows(A.m) |-> [j \in 1..Cols(A.m) |-> A.m[i][j] \div g]]
    ELSE [s \in 1..Len(A.m) |->
            [i \in 1..Rows(A.m[s]) |-> [j \in 1..Cols(A.m[s]) |-> A.m[s][i][j] \div g]]]

\* lowest terms
Canon(A) ==
    LET g == GCDSet(Entries(A) \cup {A.d})
    IN  [nd |-> A.nd, d |-> A.d \div g, m |-> DivAll(g, A)]

Arr2(d, m) == Canon([nd |-> 2, d |-> d, m |-> m])

shape(A) ==
    IF A.nd = 2 THEN <<Rows(A.m), Cols(A.m)>>
    ELSE <<Len(A.m), Rows(A.m[1]), Cols(A.m[1])>>

\* A[i] of a stack: the i-th n x p slice (numbered from 1 here, from 0 in numpy)
Slice(A, i) == Arr2(A.d, A.m[i])

\* the stack whose slices are the matrices S[1], ..., S[k]
RECURSIVE DenProd(_, _)
DenProd(S, j) == IF j = 0 THEN 1 ELSE S[j].d * DenProd(S, j - 1)

Stack(S) ==
    LET D == DenProd(S, Len(S))
    IN  Canon([nd |-> 3, d |-> D,
               m |-> [s \in 1..Len(S) |-> MScale(D \div S[s].d, S[s].m)]])

Slices(A) == [s \in 1..Len(A.m) |-> Slice(A, s)]

\* elementwise A + B, A - B, A / c for arrays of one shape
Add(A, B) ==
    Canon([nd |-> A.nd, d |-> A.d * B.d,
           m |-> IF A.nd = 2
                 THEN MAdd(MScale(B.d, A.m), MScale(A.d, B.m))
                 ELSE [s \in 1..Len(A.m) |->
                          MAdd(MScale(B.d, A.m[s]), MScale(A.d, B.m[s]))]])
Neg(A) == [nd |-> A.nd, d |-> A.d, m |-> ScaleAll(-1, A)]
Sub(A, B) == Add(A, Neg(B))
Div(A, c) == Canon([nd |-> A.nd, d |-> A.d * c, m |-> A.m])

\* numpy: A.T and np.dot(A, B) of matrices
Transp2(A) == Arr2(A.d, MT(A.m))
dot(A, B) == Arr2(A.d * B.d, MMul(A.m, B.m))

eye(p) == Arr2(1, [i \in 1..p |-> [j \in 1..p |-> IF i = j THEN 1 ELSE 0]])
zeros2(n, p) == Arr2(1, [i \in 1..n |-> [j \in 1..p |-> 0]])

\* np.bmat([A, B]) and np.bmat([[A], [B]]): blocks side by side, and on top
hcat(A, B) ==
    Arr2(A.d * B.d,
         [i \in 1..Rows(A.m) |-> MScale(B.d, A.m)[i] \o MScale(A.d, B.m)[i]])
vcat(A, B) == Arr2(A.d * B.d, MScale(B.d, A.m) \o MScale(A.d, B.m))

\* np.diag of a matrix (its diagonal, as scalars) and of a vector of scalars
diag(R) == [i \in 1..Cols(R.m) |-> Rat(R.m[i][i], R.d)]
RECURSIVE VecDen(_, _)
VecDen(v, j) == IF j = 0 THEN 1 ELSE v[j].den * VecDen(v, j - 1)
diagMat(v) ==
    LET D == VecDen(v, Len(v))
    IN  Arr2(D, [i \in 1..Len(v) |-> [j \in 1..Len(v) |->
                    IF i = j THEN v[i].num * (D \div v[i].den) ELSE 0]])

\* np.sign of a scalar
sign(x) == RInt(IF x.num > 0 THEN 1 ELSE IF x.num < 0 THEN -1 ELSE 0)

\* ----------------------------------------------------- the external kernels
\* What np.linalg.qr may return is modelled by its contract: any q with
\* orthonormal columns and upper triangular r with q.r = M.  The q considered
\* are the matrices with orthonormal columns and entries j/PointDen.
PointDen == 5

IsOrtho(m) ==
    MMul(MT(m), m) = MScale(PointDen * PointDen, eye(Cols(m)).m)

OrthoShapes ==
    {s \in (1..MaxN) \X (1..MaxN) : s[2] <= s[1] /\ s[1] * s[2] <= MaxCells}

OrthoTable ==
    UNION {{<<s, Arr2(PointDen, m)>> :
               m \in {x \in [1..s[1] -> [1..s[2] -> -PointDen..PointDen]] : IsOrtho(x)}} :
           s \in OrthoShapes}

Ortho(n, p) == {e[2] : e \in {t \in OrthoTable : t[1] = <<n, p>>}}

IsUpper(R) == \A i \in 1..Rows(R.m) : \A j \in 1..Cols(R.m) : i > j => R.m[i][j] = 0

qr(M) ==
    {f \in {[q |-> Q, r |-> dot(Transp2(Q), M)] : Q \in Ortho(Rows(M.m), Cols(M.m))} :
        IsUpper(f.r) /\ dot(f.q, f.r) = M}

\* scipy.linalg.expm, as the Taylor polynomial of degree ExpmOrder
RECURSIVE MPow(_, _)
MPow(M, j) == IF j = 0 THEN eye(Rows(M.m)) ELSE dot(MPow(M, j - 1), M)
RECURSIVE expmSum(_, _)
expmSum(M, j) ==
    IF j = 0 THEN eye(Rows(M.m))
    ELSE Add(expmSum(M, j - 1), Div(MPow(M, j), Factorial(j)))
expm(M) == expmSum(M, ExpmOrder)

\* np.tensordot(G, H, axes=G.ndim): every axis of G against the axes of H
FlatM(m) == [c \in 1..Rows(m) * Cols(m) |->
                m[((c - 1) \div Cols(m)) + 1][((c - 1) % Cols(m)) + 1]]
RECURSIVE FlatStack(_, _)
FlatStack(m, s) == IF s = 0 THEN <<>> ELSE FlatStack(m, s - 1) \o FlatM(m[s])
Flat(A) == IF A.nd = 2 THEN FlatM(A.m) ELSE FlatStack(A.m, Len(A.m))
tensordot(G, H) ==
    Rat(ISum([c \in 1..Len(Flat(G)) |-> Flat(G)[c] * Flat(H)[c]], Len(Flat(G))),
        G.d * H.d)

\* np.linalg.norm(G), for the arrays whose norm is rational
RECURSIVE SqrtFrom(_, _)
SqrtFrom(s, r) == IF r * r >= s THEN r ELSE SqrtFrom(s, r + 1)
Sqrt(s) == SqrtFrom(s, 0)
IsSquare(s) == Sqrt(s) * Sqrt(s) = s
SumSq(G) == ISum([c \in 1..Len(Flat(G)) |-> Flat(G)[c] * Flat(G)[c]], Len(Flat(G)))
HasNorm(G) == IsSquare(SumSq(G))
linalgNorm(G) == Rat(Sqrt(SumSq(G)), G.d)

\* pymanopt.tools.multi: the per-slice product, transpose and symmetric part
multiprod(A, B) ==
    IF A.nd = 2 THEN dot(A, B)
    ELSE Stack([s \in 1..Len(A.m) |-> dot(Slice(A, s), Slice(B, s))])
multitransp(A) ==
    IF A.nd = 2 THEN Transp2(A)
    ELSE Stack([s \in 1..Len(A.m) |-> Transp2(Slice(A, s))])
multisym(A) == Div(Add(A, multitransp(A)), 2)

\* --------------------------------------------------------------- the manifold
NoManifold == [ok |-> FALSE]

\* (mutant) the dimension of one factor only: the factor k dropped
dimOfOneFactor(n, p, k) ==
    RSub(RInt(n * p), RMul(RMul(Rat(1, 2), RInt(p)), RInt(p + 1)))

\* self._dim = self._k*(self._n*self._p - .5*self._p*(self._p+1))
dimOf(n, p, k) ==
    RMul(RInt(k),
         RSub(RInt(n * p), RMul(RMul(Rat(1, 2), RInt(p)), RInt(p + 1))))

nameOf(n, p, k) ==
    IF k = 1 THEN [fmt |-> "Stiefel manifold St(%d, %d)", args |-> <<n, p>>]
    ELSE [fmt |-> "Product Stiefel manifold St(%d, %d)^%d", args |-> <<n, p, k>>]

\* man:    the Stiefel object: NoManifold, or _n, _p, _k, _dim, _name
\* heap:   the ndarrays of the call in progress, by identity: the arrays the
\*         caller passed, then the arrays the operator allocated
\* passed: the arrays of the caller as they were when it called
\* call:   the method called and its arguments (identities of arrays in heap)
\* result: what the call returned (a scalar, the identity of an array) or raised
\* qrOut:  the factors q, r that np.linalg.qr returned in this call
VARIABLES man, heap, passed, call, result, qrOut
vars == <<man, heap, passed, call, result, qrOut>>

NoCall == [op |-> "none", args |-> <<>>]
NoResult == [kind |-> "none", id |-> 0, val |-> RInt(0), exc |-> "none"]
Raised(e) == [kind |-> "error", id |-> 0, val |-> RInt(0), exc |-> e]
Scalar(v) == [kind |-> "scalar", id |-> 0, val |-> v, exc |-> "none"]
Ref(i) == [kind |-> "array", id |-> i, val |-> RInt(0), exc |-> "none"]

\* ------------------------------------------------------ Stiefel's operators
\* (mutant) the contraction taken against the point instead of G
innerOfPoint(X, G, H) == tensordot(X, H)

\* Stiefel.inner
inner(X, G, H) == tensordot(G, H)

\* Stiefel.norm
norm(X, G) == linalgNorm(G)

\* (mutant) the halving of X^T U + U^T X left out
projNoHalf(k, X, U) ==
    IF k = 1
    THEN Sub(U, dot(X, Add(dot(Transp2(X), U), dot(Transp2(U), X))))
    ELSE Sub(U, multiprod(X, Add(multiprod(multitransp(X), U),
                                 multiprod(multitransp(U), X))))

\* Stiefel.proj
proj(k, X, U) ==
    IF k = 1
    THEN Sub(U, Div(dot(X, Add(dot(Transp2(X), U), dot(Transp2(U), X))), 2))
    ELSE Sub(U, Div(multiprod(X, Add(multiprod(multitransp(X), U),
                                     multiprod(multitransp(U), X))), 2))

\* Stiefel.ehess2rhess
ehess2rhess(k, X, egrad, ehess, H) ==
    LET XtG == multiprod(multitransp(X), egrad)
        symXtG == multisym(XtG)
        HsymXtG == multiprod(H, symXtG)
    IN  proj(k, X, Sub(ehess, HsymXtG))

\* Stiefel.transp
transp(k, x1, x2, d) == proj(k, x2, d)

\* (mutant) the plain sign, without the shift by .5
signPlain(r) == [i \in 1..Cols(r.m) |-> sign(diag(r)[i])]

\* np.sign(np.sign(np.diag(r))+.5)
signFix(r) == [i \in 1..Cols(r.m) |-> sign(RAdd(sign(diag(r)[i]), Rat(1, 2)))]

\* Stiefel.retr, k == 1, with q, r = f.q, f.r the factors the kernel returned
retrQR(f) == dot(f.q, diagMat(signFix(f.r)))

\* Stiefel.exp, k == 1
exp1(p, X, U) ==
    dot(dot(hcat(X, U),
            expm(vcat(hcat(dot(Transp2(X), U), Neg(dot(Transp2(U), U))),
                      hcat(eye(p), dot(Transp2(X), U))))),
        vcat(expm(Neg(dot(Transp2(X), U))), zeros2(p, p)))

\* Y[i] = V: the stack Y with its i-th slice overwritten
SetSlice(Y, i, V) == Stack([Slices(Y) EXCEPT ![i] = V])

\* Y = np.zeros(np.shape(X)): the heap with a fresh array of zeros at its end
expAlloc(h, x) ==
    Append(h, Stack([s \in 1..shape(h[x])[1] |-> zeros2(shape(h[x])[2], shape(h[x])[3])]))
\* (mutant) Y bound to the array of X instead of the fresh one
expYInPlace(h, x) == x
expY(h, x) == Len(h) + 1

\* (mutant) every pass of the loop reads the first slice of X
RECURSIVE expLoopFirstSlice(_, _, _, _, _, _, _)
expLoopFirstSlice(h, y, x, u, i, k, p) ==
    IF i > k THEN h
    ELSE LET Xi == Slice(h[x], 1)
             Ui == Slice(h[u], i)
             Yi == dot(dot(hcat(Xi, Ui),
                           expm(vcat(hcat(dot(Transp2(Xi), Ui), Neg(dot(Transp2(Ui), Ui))),
                                     hcat(eye(p), dot(Transp2(Xi), Ui))))),
                       vcat(expm(Neg(dot(Transp2(Xi), Ui))), zeros2(p, p)))
         IN  expLoopFirstSlice([h EXCEPT ![y] = SetSlice(h[y], i, Yi)], y, x, u, i + 1, k, p)

\* Stiefel.exp, k > 1: the loop from slice i on, writing into the array h[y]
RECURSIVE expLoop(_, _, _, _, _, _, _)
expLoop(h, y, x, u, i, k, p) ==
    IF i > k THEN h
    ELSE LET Xi == Slice(h[x], i)
             Ui == Slice(h[u], i)
             Yi == dot(dot(hcat(Xi, Ui),
                           expm(vcat(hcat(dot(Transp2(Xi), Ui), Neg(dot(Transp2(Ui), Ui))),
                                     hcat(eye(p), dot(Transp2(Xi), Ui))))),
                       vcat(expm(Neg(dot(Transp2(Xi), Ui))), zeros2(p, p)))
         IN  expLoop([h EXCEPT ![y] = SetSlice(h[y], i, Yi)], y, x, u, i + 1, k, p)

\* U / np.linalg.norm(U)
DivScalar(A, r) == Canon([nd |-> A.nd, d |-> A.d * r.num, m |-> ScaleAll(r.den, A)])

\* ------------------------------------------------------------------ callers
Callable ==
    /\ call.op = "none"
    /\ man.ok
    /\ man.n <= MaxN
    /\ man.n * man.p * man.k <= MaxCells

Ambient2(n, p) == {Arr2(1, m) : m \in [1..n -> [1..p -> -MaxEntry..MaxEntry]]}
Ambient ==
    IF man.k = 1 THEN Ambient2(man.n, man.p)
    ELSE {Stack(S) : S \in [1..man.k -> Ambient2(man.n, man.p)]}
Points ==
    IF man.k = 1 THEN Ortho(man.n, man.p)
    ELSE {Stack(S) : S \in [1..man.k -> Ortho(man.n, man.p)]}

\* what a caller holds when it calls: a point and an ambient array
Callers == IF Callable THEN {<<X, U>> : X \in Points, U \in Ambient} ELSE {}

\* what np.random.randn may draw: one n x p matrix per slice, and one array
Draws == IF Callable THEN [1..man.k -> Ambient2(man.n, man.p)] ELSE {}
DrawsVec == IF Callable THEN Ambient ELSE {}

\* a caller that holds a point only
Holders == IF Callable THEN {<<X>> : X \in Points} ELSE {}

Init ==
    /\ man = NoManifold
    /\ heap = <<>>
    /\ passed = <<>>
    /\ call = NoCall
    /\ result = NoResult
    /\ qrOut = <<>>

\* (mutant) the boundary n == p rejected
ConstructStrict(height, width, k) ==
    /\ call.op = "none"
    /\ man = NoManifold
    /\ call' = [op |-> "__init__", args |-> <<height, width, k>>]
    /\ IF height <= width \/ width < 1 \/ k < 1 THEN
            /\ result' = Raised("ValueError")
            /\ man' = man
       ELSE
            /\ result' = NoResult
            /\ man' = [ok |-> TRUE, n |-> height, p |-> width, k |-> k,
                       dim |-> dimOf(height, width, k),
                       name |-> nameOf(height, width, k)]
    /\ UNCHANGED <<heap, passed, qrOut>>

\* Stiefel.__init__(height, width, k)
Construct(height, width, k) ==
    /\ call.op = "none"
    /\ man = NoManifold
    /\ call' = [op |-> "__init__", args |-> <<height, width, k>>]
    /\ IF height < width \/ width < 1 THEN
            /\ result' = Raised("ValueError")
            /\ man' = man
       ELSE IF k < 1 THEN
            /\ result' = Raised("ValueError")
            /\ man' = man
       ELSE
            /\ result' = NoResult
            /\ man' = [ok |-> TRUE, n |-> height, p |-> width, k |-> k,
                       dim |-> dimOf(height, width, k),
                       name |-> nameOf(height, width, k)]
    /\ UNCHANGED <<heap, passed, qrOut>>

\* a call op(args) on the arrays a of the caller that returns the new array v
Returns(op, a, args, v) ==
    /\ passed' = a
    /\ call' = [op |-> op, args |-> args]
    /\ heap' = Append(a, v)
    /\ result' = Ref(Len(a) + 1)
    /\ UNCHANGED man

\* (mutant) a distance is returned
DistReturns(a, x, y) ==
    /\ Callable
    /\ passed' = a
    /\ call' = [op |-> "dist", args |-> <<x, y>>]
    /\ heap' = a
    /\ result' = Scalar(RInt(0))
    /\ UNCHANGED <<man, qrOut>>

Dist(a, x, y) ==
    /\ Callable
    /\ passed' = a
    /\ call' = [op |-> "dist", args |-> <<x, y>>]
    /\ heap' = a
    /\ result' = Raised("NotImplementedError")
    /\ UNCHANGED <<man, qrOut>>

Log(a, x, y) ==
    /\ Callable
    /\ passed' = a
    /\ call' = [op |-> "log", args |-> <<x, y>>]
    /\ heap' = a
    /\ result' = Raised("NotImplementedError")
    /\ UNCHANGED <<man, qrOut>>

Inner(a, x, g, h) ==
    /\ Callable
    /\ passed' = a
    /\ call' = [op |-> "inner", args |-> <<x, g, h>>]
    /\ heap' = a
    /\ result' = Scalar(inner(a[x], a[g], a[h]))
    /\ UNCHANGED <<man, qrOut>>

Norm(a, x, g) ==
    /\ Callable
    /\ HasNorm(a[g])
    /\ passed' = a
    /\ call' = [op |-> "norm", args |-> <<x, g>>]
    /\ heap' = a
    /\ result' = Scalar(norm(a[x], a[g]))
    /\ UNCHANGED <<man, qrOut>>

Proj(a, x, u) ==
    /\ Callable
    /\ Returns("proj", a, <<x, u>>, proj(man.k, a[x], a[u]))
    /\ UNCHANGED qrOut

\* egrad2rgrad = proj
Egrad2rgrad(a, x, u) ==
    /\ Callable
    /\ Returns("egrad2rgrad", a, <<x, u>>, proj(man.k, a[x], a[u]))
    /\ UNCHANGED qrOut

Ehess2rhess(a, x, egrad, ehess, h) ==
    /\ Callable
    /\ Returns("ehess2rhess", a, <<x, egrad, ehess, h>>,
               ehess2rhess(man.k, a[x], a[egrad], a[ehess], a[h]))
    /\ UNCHANGED qrOut

Transp(a, x1, x2, d) ==
    /\ Callable
    /\ Returns("transp", a, <<x1, x2, d>>, transp(man.k, a[x1], a[x2], a[d]))
    /\ UNCHANGED qrOut

\* Stiefel.retr.  k == 1: q, r = np.linalg.qr(X + G) and the sign fix.
\* k > 1: XNew = X + G is allocated, and the first pass of the loop reads Y[i];
\* no Y is bound in retr, in the module or in the builtins: NameError.
Retr(a, x, g) ==
    /\ Callable
    /\ IF man.k = 1 THEN
            \E f \in qr(Add(a[x], a[g])) :
                /\ Returns("retr", a, <<x, g>>, retrQR(f))
                /\ qrOut' = <<f>>
       ELSE
            /\ passed' = a
            /\ call' = [op |-> "retr", args |-> <<x, g>>]
            /\ heap' = Append(a, Add(a[x], a[g]))
            /\ result' = Raised("NameError")
            /\ qrOut' = <<>>
            /\ UNCHANGED man

Exp(a, x, u) ==
    /\ Callable
    /\ passed' = a
    /\ call' = [op |-> "exp", args |-> <<x, u>>]
    /\ IF man.k = 1 THEN
            /\ heap' = Append(a, exp1(man.p, a[x], a[u]))
            /\ result' = Ref(Len(a) + 1)
       ELSE
            /\ heap' = expLoop(expAlloc(a, x), expY(a, x), x, u, 1, man.k, man.p)
            /\ result' = Ref(expY(a, x))
    /\ UNCHANGED <<man, qrOut>>

\* Stiefel.rand: M the matrices np.random.randn drew, F the factors qr returned
Rand(M, F) ==
    /\ Callable
    /\ \A i \in 1..man.k : F[i] \in qr(M[i])
    /\ passed' = <<>>
    /\ call' = [op |-> "rand", args |-> <<>>]
    /\ heap' = IF man.k = 1 THEN <<F[1].q>>
               ELSE <<Stack([i \in 1..man.k |-> F[i].q])>>
    /\ result' = Ref(1)
    /\ qrOut' = F
    /\ UNCHANGED man

\* Stiefel.randvec: R the array np.random.randn drew
Randvec(a, x, R) ==
    /\ Callable
    /\ Len(a) = 1
    /\ LET U == proj(man.k, a[x], R)
       IN  /\ HasNorm(U)
           /\ SumSq(U) # 0
           /\ Returns("randvec", a, <<x>>, DivScalar(U, linalgNorm(U)))
    /\ UNCHANGED qrOut

\* the caller takes the outcome; the arrays of the call become garbage
Return ==
    /\ call.op # "none"
    /\ call' = NoCall
    /\ result' = NoResult
    /\ heap' = <<>>
    /\ passed' = <<>>
    /\ qrOut' = <<>>
    /\ UNCHANGED man

Ids == {1, 2}

\* the calls a caller makes: which arrays it holds and which it passes
CallConstruct ==
    \E height \in -1..MaxDim, width \in -1..MaxDim + 1, k \in -1..MaxK :
        Construct(height, width, k)
CallDist == \E a \in Callers : Dist(a, 1, 2)
CallLog == \E a \in Callers : Log(a, 1, 2)
CallInner == \E a \in Callers, x \in Ids, h \in Ids : (x = 1 \/ h = 1) /\ Inner(a, x, 2, h)
CallNorm == \E a \in Callers : Norm(a, 1, 2)
CallProj == \E a \in Callers, x \in Ids, u \in Ids : x # u /\ Proj(a, x, u)
CallEgrad2rgrad == \E a \in Callers : Egrad2rgrad(a, 1, 2)
CallEhess2rhess == \E a \in Callers, g \in Ids : Ehess2rhess(a, 1, g, 2, 2)
CallTransp == \E a \in Callers : Transp(a, 1, 1, 2)
CallRetr == \E a \in Callers : Retr(a, 1, 2)
CallExp == \E a \in Callers : Exp(a, 1, 2)
CallRand ==
    \E M \in Draws :
        \E F \in [1..man.k -> UNION {qr(M[i]) : i \in 1..man.k}] : Rand(M, F)
CallRandvec == \E a \in Holders, R \in DrawsVec : Randvec(a, 1, R)

Next ==
    \/ CallConstruct
    \/ CallDist
    \/ CallLog
    \/ CallInner
    \/ CallNorm
    \/ CallProj
    \/ CallEgrad2rgrad
    \/ CallEhess2rhess
    \/ CallTransp
    \/ CallRetr
    \/ CallExp
    \/ CallRand
    \/ CallRandvec
    \/ Return

Spec == Init /\ [][Next]_vars
\* ------------------------------------------------------------------- claims
Called(op) == call.op = op

\* X^T X = I_p on every slice
IsPoint(X) ==
    IF X.nd = 2 THEN dot(Transp2(X), X) = eye(Cols(X.m))
    ELSE \A s \in 1..Len(X.m) :
            dot(Transp2(Slice(X, s)), Slice(X, s)) = eye(Cols(X.m[s]))

\* the Frobenius inner product of two matrices, as the trace of A^T B
RECURSIVE TraceTo(_, _)
TraceTo(M, j) == IF j = 0 THEN RInt(0) ELSE RAdd(Rat(M.m[j][j], M.d), TraceTo(M, j - 1))
Frobenius(A, B) == TraceTo(dot(Transp2(A), B), Cols(A.m))
RECURSIVE FrobeniusSum(_, _, _)
FrobeniusSum(G, H, s) ==
    IF s = 0 THEN RInt(0)
    ELSE RAdd(Frobenius(Slice(G, s), Slice(H, s)), FrobeniusSum(G, H, s - 1))

\* column j of the matrix A, as scalars
Column(A, j) == [i \in 1..Rows(A.m) |-> Rat(A.m[i][j], A.d)]
NegColumn(A, j) == [i \in 1..Rows(A.m) |-> Rat(-A.m[i][j], A.d)]

\* C1: Stiefel(n, p, k) raises ValueError when n < p or p < 1, raises ValueError
\* when k < 1, and in every other case (n == p included) yields the manifold
\* with these n, p, k.
C1_ConstructValidates ==
    Called("__init__") =>
        LET n == call.args[1]
            p == call.args[2]
            k == call.args[3]
        IN  IF n < p \/ p < 1 \/ k < 1
            THEN result.kind = "error" /\ result.exc = "ValueError" /\ ~man.ok
            ELSE result.kind = "none" /\ man.ok /\ man.n = n /\ man.p = p /\ man.k = k

C1_Witness ==
    Called("__init__") /\ call.args = <<MaxN, MaxN, 1>> /\ man.ok

\* C2: the dim of a constructed manifold is k.(n.p - p(p+1)/2) exactly, an integer.
C2_Dim ==
    man.ok => man.dim = RInt(man.k * (man.n * man.p - (man.p * (man.p + 1)) \div 2))

C2_Witness ==
    man.ok /\ man.n = 5 /\ man.p = 2 /\ man.k = 1 /\ man.dim = RInt(7)

\* C3: for k > 1, retr(X, G) returns the stack whose slice i is the k = 1
\* retraction (the sign-corrected thin-QR factor) of X[i] + G[i].
C3_RetrPerSlice ==
    (Called("retr") /\ man.k > 1) =>
        /\ result.kind = "array"
        /\ \A i \in 1..man.k :
              Slice(heap[result.id], i) \in
                  {retrQR(f) : f \in qr(Add(Slice(heap[call.args[1]], i),
                                            Slice(heap[call.args[2]], i)))}

\* C4: with q, r the thin QR factors of X + G, column i of retr(X, G) is column i
\* of q when r_ii >= 0 and its negation when r_ii < 0; the multiplier is +1 or -1,
\* and +1 when r_ii = 0.
C4_SignFix ==
    (Called("retr") /\ result.kind = "array") =>
        LET q == qrOut[1].q
            r == qrOut[1].r
            Y == heap[result.id]
        IN  \A i \in 1..man.p :
                /\ signFix(r)[i] \in {RInt(1), RInt(-1)}
                /\ diag(r)[i].num = 0 => signFix(r)[i] = RInt(1)
                /\ Column(Y, i) = IF diag(r)[i].num >= 0 THEN Column(q, i)
                                  ELSE NegColumn(q, i)

C4_Witness ==
    /\ Called("retr")
    /\ result.kind = "array"
    /\ man.p = 2
    /\ diag(qrOut[1].r)[1].num < 0
    /\ diag(qrOut[1].r)[2].num = 0

\* C5: dist(X, Y) and log(X, Y) raise NotImplementedError and return no value.
C5_NotImplemented ==
    (Called("dist") \/ Called("log")) =>
        result.kind = "error" /\ result.exc = "NotImplementedError"

C5_Witness ==
    Called("log") /\ man.k = 2 /\ result.exc = "NotImplementedError"

\* C6: inner(X, G, H) is one scalar, the sum over the slices of the Frobenius
\* inner products of G[i] and H[i], whatever X is.
C6_InnerSumsSlices ==
    Called("inner") =>
        LET G == heap[call.args[2]]
            H == heap[call.args[3]]
        IN  /\ result.kind = "scalar"
            /\ result.val = IF man.k = 1 THEN Frobenius(G, H)
                            ELSE FrobeniusSum(G, H, man.k)

C6_Witness ==
    /\ Called("inner")
    /\ man.k = 2
    /\ call.args = <<2, 2, 1>>
    /\ Frobenius(Slice(heap[2], 1), Slice(heap[1], 1)).num > 0
    /\ Frobenius(Slice(heap[2], 2), Slice(heap[1], 2)).num > 0
    /\ result.val = RAdd(Frobenius(Slice(heap[2], 1), Slice(heap[1], 1)),
                         Frobenius(Slice(heap[2], 2), Slice(heap[1], 2)))

\* C7: at a point X (orthonormal columns on every slice), proj is idempotent:
\* proj(X, proj(X, U)) = proj(X, U), for k = 1 and for k > 1.
C7_ProjIdempotent ==
    (Called("proj") /\ IsPoint(heap[call.args[1]])) =>
        proj(man.k, heap[call.args[1]], heap[result.id]) = heap[result.id]

C7_Witness ==
    /\ Called("proj")
    /\ man.k = 2
    /\ IsPoint(heap[call.args[1]])
    /\ heap[call.args[1]].d = PointDen
    /\ heap[result.id] # heap[call.args[2]]
    /\ SumSq(Slice(heap[result.id], 1)) # 0
    /\ SumSq(Slice(heap[result.id], 2)) # 0

\* C8: at a point X, V = proj(X, U) is tangent: X^T V + V^T X = 0 on every slice.
C8_ProjTangent ==
    (Called("proj") /\ IsPoint(heap[call.args[1]])) =>
        LET X == heap[call.args[1]]
            V == heap[result.id]
        IN  IF man.k = 1
            THEN Add(dot(Transp2(X), V), dot(Transp2(V), X)) = zeros2(man.p, man.p)
            ELSE \A s \in 1..man.k :
                    Add(dot(Transp2(Slice(X, s)), Slice(V, s)),
                        dot(Transp2(Slice(V, s)), Slice(X, s))) = zeros2(man.p, man.p)

C8_Witness ==
    /\ Called("proj")
    /\ man.k = 1
    /\ man.p = 2
    /\ IsPoint(heap[call.args[1]])
    /\ heap[call.args[1]].d = PointDen
    /\ heap[result.id] # heap[call.args[2]]
    /\ SumSq(heap[result.id]) # 0

\* C9: no operator call changes an array it was passed, an array it returns is
\* none of the arrays it was passed, and the manifold keeps the n, p, k, dim and
\* name it was constructed with.
Operators ==
    {"inner", "norm", "proj", "egrad2rgrad", "ehess2rhess", "retr", "exp", "transp",
     "rand", "randvec", "dist", "log"}

C9_ArgumentsKept ==
    call.op \in Operators =>
        /\ Len(heap) >= Len(passed)
        /\ \A i \in 1..Len(passed) : heap[i] = passed[i]
        /\ result.kind = "array" => result.id > Len(passed) /\ result.id <= Len(heap)

C9_Frame ==
    /\ []C9_ArgumentsKept
    /\ [][man.ok => man' = man]_vars

C9_Witness ==
    /\ Called("exp")
    /\ man.k = 2
    /\ result.kind = "array"
    /\ heap[1] = passed[1]
    /\ heap[result.id] # heap[1]
    /\ Slice(heap[result.id], 1) # Slice(heap[1], 1)
    /\ Slice(heap[result.id], 2) # Slice(heap[1], 2)

\* C10: for k > 1, slice i of exp(X, U) is what the k == 1 branch computes from
\* X[i] and U[i] alone, [X | U] expm([[A, -U^T U], [I, A]]) [expm(-A); 0] with
\* A = X^T U, for every i, in the order of the slices.
C10_ExpPerSlice ==
    (Called("exp") /\ man.k > 1) =>
        /\ result.kind = "array"
        /\ shape(heap[result.id]) = shape(heap[call.args[1]])
        /\ \A i \in 1..man.k :
              Slice(heap[result.id], i) =
                  exp1(man.p, Slice(heap[call.args[1]], i), Slice(heap[call.args[2]], i))

C10_Witness ==
    /\ Called("exp")
    /\ man.k = 2
    /\ man.n = 2
    /\ result.kind = "array"
    /\ Slice(heap[1], 1) # Slice(heap[1], 2)
    /\ Slice(heap[2], 1) # Slice(heap[2], 2)
    /\ SumSq(Slice(heap[2], 1)) # 0
    /\ SumSq(Slice(heap[2], 2)) # 0
    /\ Slice(heap[result.id], 1) # Slice(heap[result.id], 2)
====
